---- MODULE Spec2Model ----
(***************************************************************************)
(* Model of JointReactionsAnalysis/JRA_Batch.py: the batch driver that,    *)
(* for every subject of two cohort lists, resolves the subject's paths,    *)
(* walks its SO_Results directory, writes one setup file per states file   *)
(* and runs the OpenSim AnalyzeTool on it.                                 *)
(*                                                                         *)
(* Python strings are modelled as sequences of tokens.  The tokens are     *)
(* chosen so that every substring test, split and replace of the program   *)
(* falls on token boundaries.                                              *)
(***************************************************************************)
EXTENDS Integers, Sequences, FiniteSets, TLC

VARIABLES
    tear_subjects,      \* argument: list of subject ids with tears
    no_tear_subjects,   \* argument: list of subject ids without tears
    root_dir,           \* argument: root data directory
    setup_template,     \* argument: path of the setup template
    so_listing,         \* file system: subject id -> files under its SO_Results
    files,              \* file system: text files (template, setup files) by path
    dirs,               \* file system: existing results directories
    pc,                 \* position of run_joint_reactions_analysis
    idx,                \* index of subject_id in subject_list
    cohort,             \* local: <<>> is None, <<TRUE>>, <<FALSE>>
    model_file,         \* local
    so_dir,             \* local
    results_dir,        \* local
    walk,               \* files os.walk has still to yield
    states_file,        \* local
    trial,              \* local
    tool_name,          \* local
    initial_time,       \* local of prep_joint_reactions_analysis
    final_time,         \* local of prep_joint_reactions_analysis
    setup_file,         \* local
    model,              \* local: the loaded osim.Model
    trials,             \* history: one record per trial started
    log,                \* history: the logging.info lines
    q_result            \* result of a direct call of get_subject_info

args == <<tear_subjects, no_tear_subjects, root_dir, setup_template, so_listing>>
fsys == <<files, dirs>>
subj == <<idx, cohort, model_file, so_dir, results_dir, walk>>
tri == <<states_file, trial, tool_name, initial_time, final_time, setup_file, model>>
vars == <<args, fsys, pc, subj, tri, trials, log, q_result>>

(***************************************************************************)
(* Bounds                                                                  *)
(***************************************************************************)
MaxSubjects == 2   \* total length of the two subject lists
MaxFiles == 2      \* files under the first subject's SO_Results
MaxWorkers == 2    \* workers that run the directory step concurrently

(***************************************************************************)
(* Python str operations on token sequences                                *)
(***************************************************************************)
StartsWith(s, p) == Len(p) <= Len(s) /\ SubSeq(s, 1, Len(p)) = p

Drop(s, n) == SubSeq(s, n + 1, Len(s))

Contains(s, sub) ==
    \E i \in 1..(Len(s) - Len(sub) + 1) : SubSeq(s, i, i + Len(sub) - 1) = sub

RECURSIVE Replace(_, _, _)
Replace(s, old, new) ==
    IF s = <<>> THEN <<>>
    ELSE IF StartsWith(s, old) THEN new \o Replace(Drop(s, Len(old)), old, new)
    ELSE <<Head(s)>> \o Replace(Tail(s), old, new)

RECURSIVE SplitFirst(_, _)
SplitFirst(s, d) ==
    IF s = <<>> \/ StartsWith(s, d) THEN <<>>
    ELSE <<Head(s)>> \o SplitFirst(Tail(s), d)

RECURSIVE SplitLast(_, _)
SplitLast(s, d) ==
    IF ~Contains(s, d) THEN s ELSE SplitLast(Tail(s), d)

InList(x, list) == \E i \in 1..Len(list) : list[i] = x

(***************************************************************************)
(* os.path                                                                 *)
(***************************************************************************)
Cwd == <<"/", "home">>

RECURSIVE NormPath(_)
NormPath(p) ==
    IF Len(p) <= 1 THEN p
    ELSE IF p[1] = "/" /\ p[2] = "/" THEN NormPath(Tail(p))
    ELSE <<Head(p)>> \o NormPath(Tail(p))

AbsPath(p) ==
    IF p # <<>> /\ Head(p) = "/" THEN NormPath(p)
    ELSE NormPath(Cwd \o <<"/">> \o p)

PathJoin(d, f) == d \o <<"/">> \o f

(***************************************************************************)
(* get_subject_info                                                        *)
(***************************************************************************)
Unbound == [raised |-> TRUE, model_file |-> <<>>, so_dir |-> <<>>,
            results_dir |-> <<>>, cohort |-> <<>>]

\* variant: only the suffix is replaced, the identifier stays in the path
SubjectPaths_suffix(root, subject_id, suffix, tag) ==
    LET mf == root \o <<"/">> \o subject_id \o <<"/">> \o subject_id \o <<suffix>>
        so == Replace(mf, <<suffix>>, <<"SO_Results">>)
        rd == Replace(mf, <<suffix>>, <<"JRA_Results">>)
    IN  [raised |-> FALSE, model_file |-> AbsPath(mf), so_dir |-> AbsPath(so),
         results_dir |-> AbsPath(rd), cohort |-> <<tag>>]

SubjectPaths(root, subject_id, suffix, tag) ==
    LET mf == root \o <<"/">> \o subject_id \o <<"/">> \o subject_id \o <<suffix>>
        so == Replace(mf, subject_id \o <<suffix>>, <<"SO_Results">>)
        rd == Replace(mf, subject_id \o <<suffix>>, <<"JRA_Results">>)
    IN  [raised |-> FALSE, model_file |-> AbsPath(mf), so_dir |-> AbsPath(so),
         results_dir |-> AbsPath(rd), cohort |-> <<tag>>]

\* variant: the no-tear list is tested first
get_subject_info_notear_first(root, subject_id, tear, no_tear) ==
    IF InList(subject_id, no_tear)
    THEN SubjectPaths(root, subject_id, "_clamped.osim", FALSE)
    ELSE IF InList(subject_id, tear)
    THEN SubjectPaths(root, subject_id, "_nosupra.osim", TRUE)
    ELSE Unbound

\* variant: "else" in place of "elif subject_id in no_tear_subjects"
get_subject_info_else(root, subject_id, tear, no_tear) ==
    IF InList(subject_id, tear)
    THEN SubjectPaths(root, subject_id, "_nosupra.osim", TRUE)
    ELSE SubjectPaths(root, subject_id, "_clamped.osim", FALSE)

get_subject_info(root, subject_id, tear, no_tear) ==
    IF InList(subject_id, tear)
    THEN SubjectPaths(root, subject_id, "_nosupra.osim", TRUE)
    ELSE IF InList(subject_id, no_tear)
    THEN SubjectPaths(root, subject_id, "_clamped.osim", FALSE)
    ELSE Unbound

(***************************************************************************)
(* The file system the batch runs on                                       *)
(***************************************************************************)
Ids == {<<"s1">>, <<"s2">>, <<"s3">>}
Listed == {<<"s1">>, <<"s2">>}
Roots == {<<"/", "data">>, <<"data">>}
TemplatePath == <<"JRA_setup.xml">>

StatesName(t, mid) == <<t, "_SO", "_", mid, "_states", ".sto">>
ActivationName(t) == <<t, "_SO", "_", "StaticOptimization", "_activation", ".sto">>

\* the files a SO_Results directory may hold, in os.walk order: the files of
\* the directory itself, then those of its subdirectory "sub"
Universe ==
    << [sub |-> FALSE, name |-> StatesName("A", "StatesReporter")],
       [sub |-> FALSE, name |-> ActivationName("A")],
       [sub |-> FALSE, name |-> StatesName("B", "StatesReporter")],
       [sub |-> FALSE, name |-> StatesName("MODEL_FILE", "x")],
       [sub |-> TRUE,  name |-> StatesName("A", "StatesReporter")] >>

RECURSIVE Pick(_, _)
Pick(S, i) ==
    IF i > Len(Universe) THEN <<>>
    ELSE (IF i \in S THEN <<Universe[i]>> ELSE <<>>) \o Pick(S, i + 1)

Listings1 == {Pick(S, 1) : S \in {T \in SUBSET (1..Len(Universe)) : Cardinality(T) <= MaxFiles}}
Listing2 == Pick({3}, 1)

EntryNo(e) == CHOOSE i \in 1..Len(Universe) : Universe[i] = e

Placeholders == <<"MODEL_FILE", "COMBINED_STATES_FILE", "COMBINED_ACTIVATION_FILE",
                  "INITIAL_TIME", "FINAL_TIME", "RESULTS_DIRECTORY", "TRIAL_NAME">>

TemplateFull == <<"<AnalyzeTool", "TRIAL_NAME", ">", "MODEL_FILE", "COMBINED_STATES_FILE",
                  "COMBINED_ACTIVATION_FILE", "INITIAL_TIME", "FINAL_TIME",
                  "RESULTS_DIRECTORY", "</AnalyzeTool>">>
TemplateNoFinal == <<"<AnalyzeTool", "TRIAL_NAME", ">", "MODEL_FILE", "COMBINED_STATES_FILE",
                     "COMBINED_ACTIVATION_FILE", "INITIAL_TIME",
                     "RESULTS_DIRECTORY", "</AnalyzeTool>">>
Templates == {TemplateFull, TemplateNoFinal}

\* where the documented directory layout puts a subject's files
ActualSoDir(id) == AbsPath(root_dir \o <<"/">> \o id) \o <<"/", "SO_Results">>
ActualResultsDir(id) == AbsPath(root_dir \o <<"/">> \o id) \o <<"/", "JRA_Results">>
ActualPath(id, e) ==
    ActualSoDir(id) \o (IF e.sub THEN <<"/", "sub">> ELSE <<>>) \o <<"/">> \o e.name

\* the time stamps recorded in a states file: <<first, last>>
SubjectNo(id) == IF id = <<"s1">> THEN 1 ELSE 2
TimesOf(id, e) == <<EntryNo(e), EntryNo(e) + SubjectNo(id)>>

FileAt(path) ==
    {<<id, e>> \in Listed \X {Universe[i] : i \in 1..Len(Universe)} :
        InList(e, so_listing[id]) /\ ActualPath(id, e) = path}

\* os.walk(so_dir): nothing for a directory that does not exist
OsWalk(d) ==
    IF \E id \in Listed : ActualSoDir(id) = d
    THEN so_listing[CHOOSE id \in Listed : ActualSoDir(id) = d]
    ELSE <<>>

(***************************************************************************)
(* External capabilities (opensim, osim_emg): only their interface         *)
(***************************************************************************)
\* combine_files(states_file): the path of the combined states file
combine_files(f) == f \o <<"+combined">>

\* save_combined_activations(activation_file, ..., cohort): the path of the
\* merged activations; the cohort selects the EMG matching policy
save_combined_activations(f, c) ==
    f \o <<IF c = <<TRUE>> THEN "+emg_tear" ELSE "+emg_notear">>

\* str(float)
Floats == <<"1.0", "2.0", "3.0", "4.0", "5.0", "6.0", "7.0", "8.0", "9.0", "10.0">>
Str(t) == <<Floats[t]>>

(***************************************************************************)
(* create_jra_setup                                                        *)
(***************************************************************************)
ActivationFile(f) ==
    Replace(f, <<"StatesReporter", "_states">>, <<"StaticOptimization", "_activation">>)

Substitute(content, mf, cs, ca, t0, t1, rd, tn) ==
    LET c1 == Replace(content, <<"MODEL_FILE">>, mf)
        c2 == Replace(c1, <<"COMBINED_STATES_FILE">>, cs)
        c3 == Replace(c2, <<"COMBINED_ACTIVATION_FILE">>, ca)
        c4 == Replace(c3, <<"INITIAL_TIME">>, Str(t0))
        c5 == Replace(c4, <<"FINAL_TIME">>, Str(t1))
        c6 == Replace(c5, <<"RESULTS_DIRECTORY">>, rd)
    IN  Replace(c6, <<"TRIAL_NAME">>, tn)

SetupPath(rd, tn) == PathJoin(rd, tn \o <<"_Setup.xml">>)

\* variant: open(path, "a")
WriteFile_append(fs, path, content) ==
    [p \in DOMAIN fs \cup {path} |->
        IF p = path THEN (IF p \in DOMAIN fs THEN fs[p] ELSE <<>>) \o content
        ELSE fs[p]]

\* open(path, "w"); write(content)
WriteFile(fs, path, content) ==
    [p \in DOMAIN fs \cup {path} |-> IF p = path THEN content ELSE fs[p]]

(***************************************************************************)
(* run_joint_reactions_analysis                                            *)
(***************************************************************************)
subject_list == tear_subjects \o no_tear_subjects
subject_id == subject_list[idx]

SeqsUpTo(S, n) == UNION {[1..k -> S] : k \in 0..n}

Info(ev, who) == [ev |-> ev, who |-> who]

Last == trials[Len(trials)]
SetLast(r) == [trials EXCEPT ![Len(trials)] = r]

\* an exception nothing catches: the interpreter exits with a traceback
Raise == /\ pc' = "crashed"
         /\ trials' = SetLast([Last EXCEPT !.stage = "Failed"])

Init ==
    /\ tear_subjects \in SeqsUpTo(Listed, MaxSubjects)
    /\ no_tear_subjects \in SeqsUpTo(Listed, MaxSubjects)
    /\ Len(tear_subjects) + Len(no_tear_subjects) <= MaxSubjects
    /\ root_dir = <<"data">>
    /\ setup_template = TemplatePath
    /\ so_listing \in {[id \in Listed |-> IF id = <<"s1">> THEN l1 ELSE Listing2] :
                          l1 \in Listings1}
    /\ files \in {[p \in {TemplatePath} |-> t] : t \in Templates}
    /\ dirs = {ActualResultsDir(<<"s2">>)}
    /\ pc = "loop"
    /\ idx = 0
    /\ cohort = <<>>
    /\ model_file = <<>>
    /\ so_dir = <<>>
    /\ results_dir = <<>>
    /\ walk = <<>>
    /\ states_file = <<>>
    /\ trial = <<>>
    /\ tool_name = <<>>
    /\ initial_time = 0
    /\ final_time = 0
    /\ setup_file = <<>>
    /\ model = [file |-> <<>>, trialno |-> 0]
    /\ trials = <<>>
    /\ log = <<>>
    /\ q_result = <<>>

\* lines 148-152: the next subject of the list, its cohort and paths
StartSubject ==
    /\ pc = "loop"
    /\ idx < Len(subject_list)
    /\ idx' = idx + 1
    /\ LET id == subject_list[idx + 1]
           info == get_subject_info(root_dir, id, tear_subjects, no_tear_subjects)
       IN  /\ log' = Append(log, Info("Processing subject", id))
           /\ IF info.raised
              THEN /\ pc' = "crashed"
                   /\ cohort' = <<>>
                   /\ UNCHANGED <<model_file, so_dir, results_dir>>
              ELSE /\ pc' = "mkdir"
                   /\ cohort' = info.cohort
                   /\ model_file' = info.model_file
                   /\ so_dir' = info.so_dir
                   /\ results_dir' = info.results_dir
    /\ UNCHANGED <<args, fsys, walk, tri, trials, q_result>>

\* variant: os.makedirs without the os.path.exists test; it raises
\* FileExistsError for a directory that exists
EnsureResultsDir_unconditional ==
    /\ pc = "mkdir"
    /\ IF results_dir \notin dirs
       THEN /\ dirs' = dirs \cup {results_dir}
            /\ log' = Append(log, Info("Created results directory", results_dir))
            /\ walk' = OsWalk(so_dir)
            /\ pc' = "walk"
       ELSE /\ pc' = "crashed"
            /\ UNCHANGED <<dirs, log, walk>>
    /\ UNCHANGED <<args, files, idx, cohort, model_file, so_dir, results_dir,
                   tri, trials, q_result>>

\* lines 154-158: create the results directory if absent, start the walk
EnsureResultsDir ==
    /\ pc = "mkdir"
    /\ IF results_dir \notin dirs
       THEN /\ dirs' = dirs \cup {results_dir}
            /\ log' = Append(log, Info("Created results directory", results_dir))
       ELSE UNCHANGED <<dirs, log>>
    /\ walk' = OsWalk(so_dir)
    /\ pc' = "walk"
    /\ UNCHANGED <<args, files, idx, cohort, model_file, so_dir, results_dir,
                   tri, trials, q_result>>

\* variant: every .sto file is taken for a states file
IsStatesFile_sto(name) == Contains(name, <<".sto">>)

\* line 160: "_states.sto" in name
IsStatesFile(name) == Contains(name, <<"_states", ".sto">>)

\* variant: the walk does not move past a file it passes over
SkipFile_stuck ==
    /\ pc = "walk"
    /\ walk # <<>>
    /\ ~IsStatesFile(Head(walk).name)
    /\ UNCHANGED vars

\* lines 159-160: a file without the states marker is passed over
SkipFile ==
    /\ pc = "walk"
    /\ walk # <<>>
    /\ ~IsStatesFile(Head(walk).name)
    /\ walk' = Tail(walk)
    /\ UNCHANGED <<args, fsys, pc, idx, cohort, model_file, so_dir, results_dir,
                   tri, trials, log, q_result>>

TrialOf(name) == SplitFirst(SplitLast(name, <<"/">>), <<"_SO">>)

\* lines 160-166: a states file starts a trial
StartTrial ==
    /\ pc = "walk"
    /\ walk # <<>>
    /\ IsStatesFile(Head(walk).name)
    /\ LET name == Head(walk).name
           sf == so_dir \o <<"/">> \o name
           tr == TrialOf(sf)
       IN  /\ states_file' = sf
           /\ trial' = tr
           /\ tool_name' = tr \o <<"_JRA">>
           /\ log' = Append(log, Info("Trial in progress", tr))
           /\ trials' = Append(trials,
                 [stage |-> "Discovered", pos |-> idx, id |-> subject_id,
                  entry |-> Head(walk), trial |-> tr, states_file |-> sf,
                  times |-> <<>>, setup |-> <<>>, written |-> <<>>,
                  passed |-> <<>>, model |-> <<>>, inputs |-> <<>>,
                  activation |-> <<>>])
    /\ walk' = Tail(walk)
    /\ pc' = "window"
    /\ UNCHANGED <<args, fsys, idx, cohort, model_file, so_dir, results_dir,
                   initial_time, final_time, setup_file, model, q_result>>

\* lines 132-134: osim.Storage reads the states file, or throws
ExtractWindow ==
    /\ pc = "window"
    /\ \E readable \in BOOLEAN :
          IF readable /\ FileAt(states_file) # {}
          THEN LET f == CHOOSE f \in FileAt(states_file) : TRUE
                   t == TimesOf(f[1], f[2])
               IN  /\ initial_time' = t[1]
                   /\ final_time' = t[2]
                   /\ trials' = SetLast([Last EXCEPT !.stage = "WindowExtracted",
                                                     !.times = t])
                   /\ pc' = "synth"
          ELSE Raise /\ UNCHANGED <<initial_time, final_time>>
    /\ UNCHANGED <<args, fsys, subj, states_file, trial, tool_name, setup_file,
                   model, log, q_result>>

\* lines 136-138 and 63-98: create_jra_setup reads the template, has the
\* states and activations merged, substitutes and writes the setup file
CreateJraSetup ==
    /\ pc = "synth"
    /\ \E merged \in BOOLEAN :
          IF merged
          THEN LET content == files[setup_template]
                   combined_states == combine_files(states_file)
                   activation_file == ActivationFile(states_file)
                   combined_activations == save_combined_activations(activation_file, cohort)
                   new == Substitute(content, model_file, combined_states,
                                     combined_activations, initial_time, final_time,
                                     results_dir, tool_name)
                   setup_path == SetupPath(results_dir, tool_name)
               IN  /\ files' = WriteFile(files, setup_path, new)
                   /\ setup_file' = setup_path
                   /\ trials' = SetLast([Last EXCEPT !.stage = "ConfigSynthesized",
                                                     !.setup = setup_path,
                                                     !.activation = activation_file,
                                                     !.inputs = <<content, model_file,
                                                        states_file, initial_time,
                                                        final_time, results_dir,
                                                        tool_name, cohort>>,
                                                     !.written = files'[setup_path]])
                   /\ pc' = "load"
          ELSE Raise /\ UNCHANGED <<files, setup_file>>
    /\ UNCHANGED <<args, dirs, subj, states_file, trial, tool_name, initial_time,
                   final_time, model, log, q_result>>

\* variant: the model is loaded once per model file and used again
LoadModel_cached ==
    /\ pc = "load"
    /\ \E loaded \in BOOLEAN :
          IF loaded
          THEN /\ model' = IF model.file = model_file THEN model
                           ELSE [file |-> model_file, trialno |-> Len(trials)]
               /\ trials' = SetLast([Last EXCEPT !.model = model_file])
               /\ pc' = "invoke"
          ELSE Raise /\ UNCHANGED model
    /\ UNCHANGED <<args, fsys, subj, states_file, trial, tool_name, initial_time,
                   final_time, setup_file, log, q_result>>

\* lines 171-172: osim.Model(model_file) and initSystem, or a throw
LoadModel ==
    /\ pc = "load"
    /\ \E loaded \in BOOLEAN :
          IF loaded
          THEN /\ model' = [file |-> model_file, trialno |-> Len(trials)]
               /\ trials' = SetLast([Last EXCEPT !.model = model_file])
               /\ pc' = "invoke"
          ELSE Raise /\ UNCHANGED model
    /\ UNCHANGED <<args, fsys, subj, states_file, trial, tool_name, initial_time,
                   final_time, setup_file, log, q_result>>

\* lines 173-174: AnalyzeTool(setup_file, True) reads the setup file; run()
\* returns (true or false: the result is dropped) or throws
RunAnalyzeTool ==
    /\ pc = "invoke"
    /\ \E returns \in BOOLEAN :
          IF returns
          THEN /\ pc' = "complete"
               /\ trials' = SetLast([Last EXCEPT !.stage = "EngineInvoked",
                                                 !.passed = files[setup_file]])
          ELSE /\ pc' = "crashed"
               /\ trials' = SetLast([Last EXCEPT !.stage = "Failed",
                                                 !.passed = files[setup_file]])
    /\ UNCHANGED <<args, fsys, subj, tri, log, q_result>>

\* line 176
TrialComplete ==
    /\ pc = "complete"
    /\ log' = Append(log, Info("Trial complete", trial))
    /\ trials' = SetLast([Last EXCEPT !.stage = "Complete"])
    /\ pc' = "walk"
    /\ UNCHANGED <<args, fsys, subj, tri, q_result>>

\* variant: the subject is left while the walk still has files
SubjectComplete_early ==
    /\ pc = "walk"
    /\ log' = Append(log, Info("Subject complete", subject_id))
    /\ pc' = "loop"
    /\ UNCHANGED <<args, fsys, subj, tri, trials, q_result>>

\* line 178: the walk is exhausted
SubjectComplete ==
    /\ pc = "walk"
    /\ walk = <<>>
    /\ log' = Append(log, Info("Subject complete", subject_id))
    /\ pc' = "loop"
    /\ UNCHANGED <<args, fsys, subj, tri, trials, q_result>>

\* line 179: the list is exhausted
AllComplete ==
    /\ pc = "loop"
    /\ idx = Len(subject_list)
    /\ log' = Append(log, Info("All subjects complete", <<>>))
    /\ pc' = "done"
    /\ UNCHANGED <<args, fsys, subj, tri, trials, q_result>>

Next ==
    \/ StartSubject
    \/ EnsureResultsDir
    \/ SkipFile
    \/ StartTrial
    \/ ExtractWindow
    \/ CreateJraSetup
    \/ LoadModel
    \/ RunAnalyzeTool
    \/ TrialComplete
    \/ SubjectComplete
    \/ AllComplete

Spec == Init /\ [][Next]_vars

(***************************************************************************)
(* get_subject_info called on its own, for any identifier and root         *)
(***************************************************************************)
GetSubjectInfoCall ==
    /\ pc = "loop"
    /\ idx = 0
    /\ q_result = <<>>
    /\ \E root \in Roots, id \in Ids :
          q_result' = <<[root |-> root, id |-> id,
                         info |-> get_subject_info(root, id, tear_subjects,
                                                   no_tear_subjects)]>>
    /\ UNCHANGED <<args, fsys, pc, subj, tri, trials, log>>

NextInfo == (q_result = <<>> /\ Next) \/ GetSubjectInfoCall

SpecInfo == Init /\ [][NextInfo]_vars

(***************************************************************************)
(* Properties                                                              *)
(***************************************************************************)
Terminated == pc \in {"done", "crashed"}
Marker == <<"_states", ".sto">>
Positions == 1..Len(subject_list)
Matching(id) == {i \in 1..Len(so_listing[id]) : Contains(so_listing[id][i].name, Marker)}
TrialNos == 1..Len(trials)
Written == {k \in TrialNos : trials[k].setup # <<>>}
Passed == {k \in TrialNos : trials[k].passed # <<>>}
CohortOf(id) == <<InList(id, tear_subjects)>>
ModelSuffix(id) == IF InList(id, tear_subjects) THEN "_nosupra.osim" ELSE "_clamped.osim"
ActualModelFile(id) ==
    AbsPath(root_dir \o <<"/">> \o id) \o <<"/">> \o id \o <<ModelSuffix(id)>>
HasPlaceholder(content) ==
    \E i \in 1..Len(Placeholders) : Contains(content, <<Placeholders[i]>>)
LacksPlaceholder(content) ==
    \E i \in 1..Len(Placeholders) : ~Contains(content, <<Placeholders[i]>>)

\* C1: when the batch has ended, every states file of every subject of the
\* list has a trial that ran to Complete or Failed: a failure in one trial
\* leaves no other trial unprocessed.
C1_FailureIsolated ==
    Terminated =>
        \A i \in Positions : \A n \in Matching(subject_list[i]) :
            \E k \in TrialNos :
                /\ trials[k].pos = i
                /\ trials[k].entry = so_listing[subject_list[i]][n]
                /\ trials[k].stage \in {"Complete", "Failed"}

\* C2: two setup files written to the same path come from the same states
\* file of the same subject, and trials of distinct subjects use distinct
\* results directories.
C2_NoOverwrite ==
    \A j \in Written : \A k \in Written :
        /\ trials[j].setup = trials[k].setup =>
              trials[j].id = trials[k].id /\ trials[j].entry = trials[k].entry
        /\ trials[j].id # trials[k].id => trials[j].inputs[6] # trials[k].inputs[6]

\* C3: a batch that ran to its end has synthesized and invoked exactly once
\* for every states file of every subject of the lists.
C3_OncePerTrial ==
    pc = "done" =>
        \A i \in Positions : \A n \in Matching(subject_list[i]) :
            Cardinality({k \in Passed :
                            /\ trials[k].id = subject_list[i]
                            /\ trials[k].entry = so_listing[subject_list[i]][n]}) = 1

\* the setup file a trial's own data gives
OwnSetup(k) ==
    LET id == trials[k].id
        sf == ActualPath(id, trials[k].entry)
        t == TimesOf(id, trials[k].entry)
    IN  Substitute(files[setup_template], ActualModelFile(id), combine_files(sf),
                   save_combined_activations(ActivationFile(sf), CohortOf(id)),
                   t[1], t[2], ActualResultsDir(id),
                   SplitFirst(trials[k].entry.name, <<"_SO">>) \o <<"_JRA">>)

\* C4: the setup file handed to AnalyzeTool holds the values of the trial's
\* own states file and of the owning subject, and nothing else.
C4_OwnData == \A k \in Passed : trials[k].passed = OwnSetup(k)

\* C4 for the states files that lie directly in SO_Results
C4_OwnDataTopLevel ==
    \A k \in Passed : ~trials[k].entry.sub => trials[k].passed = OwnSetup(k)

\* C5: no setup file handed to AnalyzeTool contains a placeholder token.
C5_NoPlaceholderPassed == \A k \in Passed : ~HasPlaceholder(trials[k].passed)

ExactlyOne(id) == InList(id, tear_subjects) # InList(id, no_tear_subjects)
Neither(id) == ~InList(id, tear_subjects) /\ ~InList(id, no_tear_subjects)
BaseName(p) == SplitLast(p, <<"/">>)
DirName(p) == SubSeq(p, 1, Len(p) - Len(BaseName(p)) - 1)

WellClassified(id, info) ==
    /\ ~info.raised
    /\ info.cohort = <<InList(id, tear_subjects)>>
    /\ BaseName(info.model_file) =
          id \o <<IF InList(id, tear_subjects) THEN "_nosupra.osim" ELSE "_clamped.osim">>
    /\ BaseName(info.so_dir) = <<"SO_Results">>
    /\ BaseName(info.results_dir) = <<"JRA_Results">>
    /\ DirName(info.so_dir) = DirName(info.model_file)
    /\ DirName(info.results_dir) = DirName(info.model_file)

Resolved == [raised |-> FALSE, model_file |-> model_file, so_dir |-> so_dir,
             results_dir |-> results_dir, cohort |-> cohort]

\* C6: for an identifier in exactly one list, get_subject_info returns the
\* list's cohort tag, a model file named <id>_nosupra.osim or
\* <id>_clamped.osim, and SO_Results and JRA_Results beside the model file;
\* the batch holds such values for its current subject.
C6_Classification ==
    /\ q_result # <<>> /\ ExactlyOne(q_result[1].id) =>
          WellClassified(q_result[1].id, q_result[1].info)
    /\ pc = "mkdir" /\ ExactlyOne(subject_id) => WellClassified(subject_id, Resolved)

C6_Witness ==
    /\ q_result # <<>>
    /\ ExactlyOne(q_result[1].id)
    /\ InList(q_result[1].id, no_tear_subjects)
    /\ q_result[1].root = <<"data">>

\* C7: for an identifier in neither list, get_subject_info raises and returns
\* no cohort and no path; the batch never creates a directory, walks or runs
\* a trial with an unresolved cohort or path.
C7_Unclassified ==
    /\ q_result # <<>> /\ Neither(q_result[1].id) =>
          /\ q_result[1].info.raised
          /\ q_result[1].info.cohort = <<>>
          /\ q_result[1].info.model_file = <<>>
    /\ pc \in {"mkdir", "walk", "window", "synth", "load", "invoke", "complete"} =>
          /\ ~Neither(subject_id)
          /\ cohort # <<>>
          /\ model_file # <<>> /\ so_dir # <<>> /\ results_dir # <<>>

C7_Witness ==
    /\ q_result # <<>>
    /\ Neither(q_result[1].id)
    /\ q_result[1].info.raised
    /\ Len(subject_list) > 0

\* C8: a trial's identifier is its file name cut at the first "_SO", its
\* states-file path is the path of the file that was found, and a subject
\* whose walk has ended has one trial per states file.
C8_Discovery ==
    /\ \A k \in TrialNos :
          /\ trials[k].trial = SplitFirst(trials[k].entry.name, <<"_SO">>)
          /\ trials[k].states_file = ActualPath(trials[k].id, trials[k].entry)
    /\ pc = "loop" /\ idx > 0 =>
          \A n \in Matching(subject_id) :
              Cardinality({k \in TrialNos : /\ trials[k].pos = idx
                                          /\ trials[k].entry = so_listing[subject_id][n]}) = 1

\* C8 for the files that lie directly in SO_Results
C8_DiscoveryTopLevel ==
    \A k \in TrialNos :
        ~trials[k].entry.sub =>
            /\ trials[k].trial = SplitFirst(trials[k].entry.name, <<"_SO">>)
            /\ trials[k].states_file = ActualPath(trials[k].id, trials[k].entry)

\* C9: two syntheses with the same inputs write the same path and leave the
\* same content in the file, and the template is what every synthesis read.
C9_Idempotent ==
    /\ \A j \in Written : \A k \in Written :
          trials[j].inputs = trials[k].inputs =>
              /\ trials[j].setup = trials[k].setup
              /\ trials[j].written = trials[k].written
    /\ \A k \in Written :
          /\ trials[k].inputs[1] = files[setup_template]
          /\ trials[k].setup # setup_template

C9_Witness ==
    \E j \in Written : \E k \in Written :
        /\ j < k
        /\ trials[j].inputs = trials[k].inputs
        /\ files[trials[k].setup] = trials[j].written

\* C10: with a template that lacks a placeholder, no trial gets past
\* synthesis: no setup file is written and none is handed to AnalyzeTool.
C10_SynthesisFails ==
    LacksPlaceholder(files[setup_template]) =>
        \A k \in TrialNos :
            /\ trials[k].setup = <<>>
            /\ trials[k].passed = <<>>
            /\ trials[k].stage \in {"Discovered", "WindowExtracted", "Failed"}

\* C10, the other half: a merge failure ends the trial in Failed and leaves
\* the batch running
C10_MergeFailureIsolated ==
    \A k \in TrialNos :
        trials[k].stage = "Failed" /\ trials[k].times # <<>> /\ trials[k].setup = <<>> =>
            pc # "crashed"

ZeroMatch(id) == Matching(id) = {}
Count(ev, who) == Cardinality({n \in 1..Len(log) : log[n] = Info(ev, who)})
Finished(i) == i < idx \/ (i = idx /\ pc \in {"loop", "done"})

\* C11: a subject whose SO_Results holds no states file has no trial, no
\* setup file and no engine run, is never where the batch fails, and has
\* "Subject complete" logged each time the batch has passed it.
C11_EmptySubject ==
    /\ \A k \in TrialNos : ~ZeroMatch(trials[k].id)
    /\ \A id \in Listed : \A p \in DOMAIN files :
          ZeroMatch(id) => ~StartsWith(p, ActualResultsDir(id))
    /\ pc = "crashed" => ~ZeroMatch(subject_id)
    /\ \A id \in Listed :
          ZeroMatch(id) =>
              Count("Subject complete", id) =
                  Cardinality({i \in Positions : Finished(i) /\ subject_list[i] = id})

C11_Witness ==
    /\ idx = 2
    /\ pc = "window"
    /\ subject_list[1] # subject_list[2]
    /\ ZeroMatch(subject_list[1])
    /\ so_listing[subject_list[1]] # <<>>
    /\ Count("Subject complete", subject_list[1]) = 1

\* C12: the step that ensures the results directory never fails; afterwards
\* the directory exists, every directory and file that existed is still
\* there, and when the directory existed already nothing is changed or logged.
C12_MkdirIdempotent ==
    [][pc = "mkdir" =>
          /\ pc' = "walk"
          /\ dirs' = dirs \cup {results_dir}
          /\ files' = files
          /\ results_dir \in dirs => dirs' = dirs /\ log' = log]_vars

C12_Witness ==
    /\ idx = 2
    /\ pc = "walk"
    /\ subject_list[1] = subject_list[2]
    /\ results_dir \in dirs
    /\ Count("Created results directory", results_dir) = 1
    /\ \E p \in DOMAIN files : StartsWith(p, results_dir)

StageOrder == {<<"Discovered", "WindowExtracted">>,
               <<"WindowExtracted", "ConfigSynthesized">>,
               <<"ConfigSynthesized", "EngineInvoked">>,
               <<"EngineInvoked", "Complete">>,
               <<"Discovered", "Failed">>,
               <<"WindowExtracted", "Failed">>,
               <<"ConfigSynthesized", "Failed">>,
               <<"EngineInvoked", "Failed">>}

StageStep ==
    /\ Len(trials') \in {Len(trials), Len(trials) + 1}
    /\ \A k \in TrialNos :
          \/ trials'[k].stage = trials[k].stage
          \/ <<trials[k].stage, trials'[k].stage>> \in StageOrder
    /\ Len(trials') = Len(trials) + 1 => trials'[Len(trials')].stage = "Discovered"

StageInv ==
    /\ \A k \in TrialNos :
          /\ trials[k].stage = "WindowExtracted" =>
                trials[k].times # <<>> /\ trials[k].setup = <<>>
          /\ trials[k].stage \in {"ConfigSynthesized", "EngineInvoked", "Complete"} =>
                trials[k].times # <<>> /\ trials[k].written # <<>>
          /\ trials[k].model # <<>> => trials[k].written # <<>>
          /\ trials[k].stage \in {"EngineInvoked", "Complete"} => k \in Passed
          /\ k \in Passed =>
                /\ trials[k].model # <<>>
                /\ trials[k].passed = trials[k].written
    /\ pc = "invoke" => model = [file |-> model_file, trialno |-> Len(trials)]
    /\ pc = "complete" => Last.stage = "EngineInvoked"
    /\ Cardinality({n \in 1..Len(log) : log[n].ev = "Trial complete"}) =
          Cardinality({k \in TrialNos : trials[k].stage = "Complete"})

\* C13: a trial's stage only moves one step along Discovered,
\* WindowExtracted, ConfigSynthesized, EngineInvoked, Complete, or to Failed,
\* which it never leaves; the window is read before the setup file is
\* written, the setup file is written before the model is loaded, AnalyzeTool
\* gets the file as written, each run has a model loaded for that trial, and
\* "complete" is logged once per run that returned.
C13_StageOrder == []StageInv /\ [][StageStep]_vars

C13_Witness ==
    /\ Len(trials) = 2
    /\ trials[1].stage = "Complete"
    /\ trials[1].pos = trials[2].pos
    /\ pc = "invoke"

ActivationSuffix == <<"StaticOptimization", "_activation">>

\* C14: the activation file a synthesis uses is another file than the states
\* file and has the activation suffix, and a trial handed to AnalyzeTool has
\* an activation file that exists.
C14_ActivationSibling ==
    /\ \A k \in Written :
          /\ trials[k].activation # trials[k].states_file
          /\ Contains(trials[k].activation, ActivationSuffix)
    /\ \A k \in Passed : FileAt(trials[k].activation) # {}

\* C14, the path alone
C14_SiblingPath ==
    \A k \in Written :
        /\ trials[k].activation # trials[k].states_file
        /\ Contains(trials[k].activation, ActivationSuffix)

\* C14, the path for the names <trial>_SO_StatesReporter_states.sto
C14_SiblingPathStandard ==
    \A k \in Written :
        Contains(trials[k].entry.name, <<"StatesReporter", "_states">>) =>
            /\ trials[k].activation # trials[k].states_file
            /\ BaseName(trials[k].activation) = ActivationName(trials[k].trial[1])
            /\ DirName(trials[k].activation) = DirName(trials[k].states_file)

(***************************************************************************)
(* Lines 154-156 run by concurrent workers, one subject each.  Here pc and *)
(* results_dir hold one value per worker; the test of line 154 and the     *)
(* os.makedirs of line 155 are separate steps.                             *)
(***************************************************************************)
Workers == 1..MaxWorkers

InitRace ==
    /\ tear_subjects = <<<<"s1">>>>
    /\ no_tear_subjects = <<<<"s2">>>>
    /\ root_dir \in Roots
    /\ setup_template = TemplatePath
    /\ so_listing = [id \in Listed |-> <<>>]
    /\ files = [p \in {TemplatePath} |-> TemplateFull]
    /\ dirs \in SUBSET {ActualResultsDir(id) : id \in Listed}
    /\ pc = [w \in Workers |-> "mkdir"]
    /\ idx = 0
    /\ cohort = <<>>
    /\ model_file = <<>>
    /\ so_dir = <<>>
    /\ results_dir \in [Workers -> {get_subject_info(root_dir, id, tear_subjects,
                                                     no_tear_subjects).results_dir :
                                       id \in Listed}]
    /\ walk = <<>>
    /\ states_file = <<>>
    /\ trial = <<>>
    /\ tool_name = <<>>
    /\ initial_time = 0
    /\ final_time = 0
    /\ setup_file = <<>>
    /\ model = [file |-> <<>>, trialno |-> 0]
    /\ trials = <<>>
    /\ log = <<>>
    /\ q_result = <<>>

\* line 154: os.path.exists(results_dir)
TestExists(w) ==
    /\ pc[w] = "mkdir"
    /\ pc' = [pc EXCEPT ![w] = IF results_dir[w] \in dirs THEN "walk" ELSE "makedirs"]
    /\ UNCHANGED <<args, fsys, subj, tri, trials, log, q_result>>

\* lines 155-156: os.makedirs(results_dir) raises FileExistsError when the
\* directory exists by now
MakeDirs(w) ==
    /\ pc[w] = "makedirs"
    /\ IF results_dir[w] \in dirs
       THEN /\ pc' = [pc EXCEPT ![w] = "crashed"]
            /\ UNCHANGED <<dirs, log>>
       ELSE /\ dirs' = dirs \cup {results_dir[w]}
            /\ log' = Append(log, Info("Created results directory", results_dir[w]))
            /\ pc' = [pc EXCEPT ![w] = "walk"]
    /\ UNCHANGED <<args, files, subj, tri, trials, q_result>>

NextRace == \E w \in Workers : TestExists(w) \/ MakeDirs(w)

SpecRace == InitRace /\ [][NextRace]_vars

\* C15: no worker fails in the directory step, and a worker that has passed
\* it has its results directory.
C15_RaceSafe ==
    \A w \in Workers :
        /\ pc[w] # "crashed"
        /\ pc[w] = "walk" => results_dir[w] \in dirs

\* C15, the second half alone: the directory exists afterwards
C15_DirExists == \A w \in Workers : pc[w] = "walk" => results_dir[w] \in dirs

InProgress == {k \in TrialNos : trials[k].stage \notin {"Complete", "Failed"}}
Events(ev) == {n \in 1..Len(log) : log[n].ev = ev}

SeqInv ==
    /\ Cardinality(InProgress) <= 1
    /\ \A k \in TrialNos : k < Len(trials) => trials[k].stage = "Complete"
    /\ \A j \in TrialNos : \A k \in TrialNos : j < k => trials[j].pos <= trials[k].pos

\* a trial that starts finds every earlier trial complete, every states file
\* of every earlier subject run to Complete, and those subjects logged complete
SeqStep ==
    Len(trials') = Len(trials) + 1 =>
        LET i == trials'[Len(trials')].pos
        IN  /\ \A k \in TrialNos : trials[k].stage = "Complete"
            /\ Cardinality(Events("Subject complete")) = i - 1
            /\ \A j \in 1..(i - 1) : \A n \in Matching(subject_list[j]) :
                  \E k \in TrialNos :
                      /\ trials[k].pos = j
                      /\ trials[k].entry = so_listing[subject_list[j]][n]
                      /\ trials[k].stage = "Complete"

\* C16: at most one trial is in progress at any time, and a trial of a later
\* subject starts only after every trial of the earlier subjects has
\* completed and their completion has been logged.
C16_Sequential == []SeqInv /\ [][SeqStep]_vars

C16_Witness ==
    /\ Len(trials) = 2
    /\ trials[1].pos = 1
    /\ trials[1].stage = "Complete"
    /\ trials[2].pos = 2
    /\ InProgress = {2}

Both(id) == InList(id, tear_subjects) /\ InList(id, no_tear_subjects)
TearValues(id, c, mf) == c = <<TRUE>> /\ BaseName(mf) = id \o <<"_nosupra.osim">>
InSubject == pc \in {"mkdir", "walk", "window", "synth", "load", "invoke", "complete"}

\* C17: an identifier in both lists is classified as tear, with the model
\* <id>_nosupra.osim, by every call; every synthesis and model load of its
\* trials uses these values, and no subject has two cohorts, model files or
\* results directories within a batch.
C17_BothListsTear ==
    /\ q_result # <<>> /\ Both(q_result[1].id) =>
          TearValues(q_result[1].id, q_result[1].info.cohort, q_result[1].info.model_file)
    /\ InSubject /\ Both(subject_id) => TearValues(subject_id, cohort, model_file)
    /\ \A k \in Written :
          /\ Both(trials[k].id) =>
                TearValues(trials[k].id, trials[k].inputs[8], trials[k].inputs[2])
          /\ trials[k].model # <<>> => trials[k].model = trials[k].inputs[2]
    /\ \A j \in Written : \A k \in Written :
          trials[j].id = trials[k].id =>
              /\ trials[j].inputs[2] = trials[k].inputs[2]
              /\ trials[j].inputs[6] = trials[k].inputs[6]
              /\ trials[j].inputs[8] = trials[k].inputs[8]

C17_Witness ==
    \E j \in Written : \E k \in Written :
        /\ trials[j].pos = 1
        /\ trials[k].pos = 2
        /\ trials[j].id = trials[k].id
        /\ Both(trials[k].id)
        /\ trials[k].model # <<>>

(***************************************************************************)
(* The interpreter always executes the next statement of the one thread.   *)
(***************************************************************************)
SpecFair == Spec /\ WF_vars(Next)

\* the who of the n-th log line, counted among the lines of its kind
Nth(ev, n) == Cardinality({m \in Events(ev) : m <= n})
Open(a, b) == Cardinality(Events(a)) - Cardinality(Events(b))

LogOrdered ==
    /\ Open("Processing subject", "Subject complete") \in {0, 1}
    /\ Open("Trial in progress", "Trial complete") \in {0, 1}
    /\ Cardinality(Events("Processing subject")) = idx
    /\ \A n \in Events("Processing subject") :
          log[n].who = subject_list[Nth("Processing subject", n)]
    /\ \A n \in Events("Subject complete") :
          /\ log[n].who = subject_list[Nth("Subject complete", n)]
          /\ Nth("Processing subject", n) = Nth("Subject complete", n)
          /\ Nth("Trial in progress", n) = Nth("Trial complete", n)
    /\ \A n \in Events("Trial in progress") :
          /\ Nth("Processing subject", n) = Nth("Subject complete", n) + 1
          /\ Nth("Trial complete", n) = Nth("Trial in progress", n) - 1
          /\ log[n].who = trials[Nth("Trial in progress", n)].trial
    /\ \A n \in Events("Trial complete") :
          /\ Nth("Processing subject", n) = Nth("Subject complete", n) + 1
          /\ Nth("Trial complete", n) = Nth("Trial in progress", n)
          /\ log[n].who = trials[Nth("Trial complete", n)].trial
    /\ Cardinality(Events("All subjects complete")) = (IF pc = "done" THEN 1 ELSE 0)
    /\ pc = "done" =>
          /\ log[Len(log)].ev = "All subjects complete"
          /\ Cardinality(Events("Subject complete")) = Len(subject_list)
          /\ Open("Trial in progress", "Trial complete") = 0
          /\ \A k \in TrialNos : trials[k].stage = "Complete"

\* C18: the batch terminates; a run in which no call throws ends with "All
\* subjects complete" logged once, as the last line, after one "Subject
\* complete" per list entry; in every log each subject's start is followed by
\* its completion before the next start, and each trial's start by its
\* completion within its subject.
C18_Termination ==
    /\ <>Terminated
    /\ []LogOrdered
    /\ [](pc = "crashed" => trials # <<>> /\ Last.stage = "Failed")

C18_Witness ==
    /\ pc = "done"
    /\ Len(subject_list) = 2
    /\ subject_list[1] # subject_list[2]
    /\ Cardinality(Events("Trial complete")) >= 2

====
